---- MODULE Spec2Model ----
(***************************************************************************)
(* Model of the manifest moderation workflow of the Store1 repository:     *)
(*   .github/scripts/validate_manifest.py  (the validator run)             *)
(*   .github/scripts/bot_commands.py       (the @bot command handler)      *)
(* The review thread (labels, comments, open/merged/closed), the checkout  *)
(* (manifest and icon files) and the outcome of the last run are the       *)
(* state; every run of one of the two scripts is one action.               *)
(***************************************************************************)
EXTENDS Integers, Sequences, FiniteSets, TLC

VARIABLES labels, comments, prState, fs, last, bot, val

vars == <<labels, comments, prState, fs, last, bot, val>>

(* ---------------- bounds ---------------- *)
MaxComments == 2
\* the longest thread find_manifest_hash_comment is applied to on its own
MaxThread == 3

(* ---------------- program constants ---------------- *)
MODERATOR == "Artyomka628"
ICON_MAX_SIZE == 3072
ICON_WIDTH == 32
ICON_HEIGHT == 32
REQUIRED_FIELDS ==
    <<"package", "name", "author", "version", "category", "description",
      "url", "sha256", "api_level", "permissions", "min_os_version">>

ON_REVIEW == "On review"
INVALID == "Invalid manifest"
APPROVED == "Approved"
REJECTED == "Rejected"
StatusLabels == {ON_REVIEW, INVALID, APPROVED, REJECTED}

(* ---------------- values ---------------- *)
Missing == [exists |-> FALSE]  \* a path that does not exist in the checkout
Absent == "<absent>"        \* a key that is not in the manifest object
Null == "<null>"            \* JSON null / Python None
Contributor == "contributor"
Users == {MODERATOR, Contributor}

Range(s) == {s[i] : i \in 1..Len(s)}

(* hashlib.sha256(data).hexdigest(): a hex string determined by the bytes  *)
(* and by nothing else; distinct bytes give distinct digests.  Bytes are   *)
(* strings here.                                                           *)
sha256_bytes(data) == "sha256:" \o data

(* ---------------- files of the pull request ---------------- *)
(* A file name as its directory prefix, base name and extension.           *)
File(dir, base, ext) == [dir |-> dir, base |-> base, ext |-> ext]
ManifestX == File("manifests", "x", "json")
ManifestY == File("manifests", "y", "json")
Readme == File("", "README", "md")
IconX == File("icons", "x", "png")
(* pr.get_files(): the files changed by the pull request, in host order:   *)
(* a file that is no manifest, the manifest paths of the submission (the   *)
(* paths fs tells of: one or two), an icon.                                *)
InPullRequest(f) == f \in {Readme, IconX} \/ f \in DOMAIN fs
PRFiles == SelectSeq(<<Readme, ManifestX, ManifestY, IconX>>, InPullRequest)

\* f.filename.startswith("manifests/") and f.filename.endswith(".json")
IsManifestPath(f) == f.dir = "manifests" /\ f.ext = "json"
ManifestPaths(files) == SelectSeq(files, IsManifestPath)

(* ---------------- manifests, icons, downloads ---------------- *)
FieldSet == Range(REQUIRED_FIELDS)

(* A manifest file: its bytes, whether they parse as JSON, whether the     *)
(* parsed value is an object, and the value of each required key of the    *)
(* parsed object: Absent, Null, "" or a non-empty string.                  *)
Manifest(bytes, json, package, url, sha) ==
    [bytes |-> bytes, json |-> json, object |-> TRUE,
     f |-> [k \in FieldSet |->
              CASE k = "package" -> package
                [] k = "url" -> url
                [] k = "sha256" -> sha
                [] OTHER -> "v"]]
(* A manifest file holding a JSON array: json.load returns a list, in      *)
(* which no required key is found.                                         *)
JsonArray(bytes) ==
    [bytes |-> bytes, json |-> TRUE, object |-> FALSE,
     f |-> [k \in FieldSet |-> Absent]]
\* the file with one key of the object set to v (Absent: the key removed)
WithField(m, k, v) ==
    [m EXCEPT !.bytes = @ \o "," \o k \o ":" \o v, !.f[k] = v]
\* the file with the keys of S removed from the object
RECURSIVE WithoutFields(_, _, _)
WithoutFields(m, S, i) ==
    IF i > Len(REQUIRED_FIELDS) THEN m
    ELSE WithoutFields(IF REQUIRED_FIELDS[i] \in S
                       THEN WithField(m, REQUIRED_FIELDS[i], Absent) ELSE m,
                       S, i + 1)

\* manifest.get(key): None when the key is absent or null
Get(manifest, key) == IF manifest.f[key] = Absent THEN Null ELSE manifest.f[key]
\* Python truthiness of a string-or-None value
Truthy(v) == v \notin {Null, Absent, ""}

Icon(size, format, width, height) ==
    [size |-> size, format |-> format, width |-> width, height |-> height]

\* requests.get(url, timeout=20): a response, or an exception
Response(status, content) == [exc |-> FALSE, status |-> status, content |-> content]
Timeout == [exc |-> TRUE, status |-> 0, content |-> ""]

\* one entry of the errors list: the file it names, its kind, its detail
Defect(path, kind, info) == [path |-> path, kind |-> kind, info |-> info]
IconPath(package) == File("icons", package, "png")

\* the icon file icons/<package>.png of the checkout
IconAt(ic, package) == IF package \in DOMAIN ic THEN ic[package] ELSE Missing

(* lines 94-96: one defect for every required key that is not in the manifest *)
RECURSIVE MissingFields(_, _, _)
MissingFields(path, manifest, i) ==
    IF i > Len(REQUIRED_FIELDS) THEN <<>>
    ELSE (IF manifest.f[REQUIRED_FIELDS[i]] = Absent
          THEN <<Defect(path, "missing_field", REQUIRED_FIELDS[i])>>
          ELSE <<>>) \o MissingFields(path, manifest, i + 1)

BrokenIconDefects(path, package, ic) ==
    LET icon == IconAt(ic, package) IN
    IF icon = Missing THEN <<Defect(path, "icon_missing", package)>>
    ELSE IF icon.size > ICON_MAX_SIZE
    THEN <<Defect(IconPath(package), "icon_too_big", "")>>
    ELSE IF icon.format # "PNG"
    THEN <<Defect(IconPath(package), "icon_not_png", "")>>
    ELSE IF icon.width # ICON_WIDTH \/ icon.height # ICON_HEIGHT
    THEN <<Defect(IconPath(package), "icon_bad_dims", "")>>
    ELSE <<>>
(* lines 102-118 *)
IconDefects(path, package, ic) ==
    LET icon == IconAt(ic, package) IN
    IF icon = Missing THEN <<Defect(path, "icon_missing", package)>>
    ELSE (IF icon.size > ICON_MAX_SIZE
          THEN <<Defect(IconPath(package), "icon_too_big", "")>> ELSE <<>>)
         \o (IF icon.format = "corrupt"
             THEN <<Defect(IconPath(package), "icon_unreadable", "")>>
             ELSE (IF icon.format # "PNG"
                   THEN <<Defect(IconPath(package), "icon_not_png", "")>> ELSE <<>>)
                  \o (IF icon.width # ICON_WIDTH \/ icon.height # ICON_HEIGHT
                      THEN <<Defect(IconPath(package), "icon_bad_dims", "")>>
                      ELSE <<>>))

(* lines 120-132 *)
DownloadDefects(path, url, declared_hash, net) ==
    IF ~Truthy(url) THEN <<>>
    ELSE LET r == net[url] IN
         IF r.exc THEN <<Defect(path, "download_failed", "")>>
         ELSE IF r.status # 200 THEN <<Defect(path, "http_status", "")>>
         ELSE LET actual_hash == sha256_bytes(r.content) IN
              IF actual_hash # declared_hash
              THEN <<Defect(path, "sha256_mismatch",
                            declared_hash \o "/" \o actual_hash)>>
              ELSE <<>>

(* lines 82-132, the body of the loop for one manifest path *)
ManifestDefects(path, files, ic, net) ==
    IF files[path] = Missing THEN <<Defect(path, "file_not_found", "")>>
    ELSE LET manifest == files[path] IN
         IF ~manifest.json THEN <<Defect(path, "invalid_json", "")>>
         ELSE MissingFields(path, manifest, 1)
              \o IconDefects(path, Get(manifest, "package"), ic)
              \o DownloadDefects(path, Get(manifest, "url"),
                                 Get(manifest, "sha256"), net)

(* lines 80-132: the defects of all manifests, accumulated in order *)
RECURSIVE Errors(_, _, _, _)
Errors(manifests, files, ic, net) ==
    IF manifests = <<>> THEN <<>>
    ELSE ManifestDefects(Head(manifests), files, ic, net)
         \o Errors(Tail(manifests), files, ic, net)

(* lines 98-100: manifest.get raises AttributeError when json.load gave a  *)
(* list; nothing catches it, the loop and the run end there.               *)
RECURSIVE Crashes(_, _)
Crashes(manifests, files) ==
    IF manifests = <<>> THEN FALSE
    ELSE LET manifest == files[Head(manifests)] IN
         \/ (manifest # Missing /\ manifest.json /\ ~manifest.object)
         \/ Crashes(Tail(manifests), files)

(* ---------------- events ---------------- *)
(* The event payload and ref a run is started with: whether the payload    *)
(* has the keys "issue", "pull_request" and "comment", and whether         *)
(* GITHUB_REF starts with refs/pull/.                                      *)
Event(issue, pull_request, comment, refPull) ==
    [issue |-> issue, pull_request |-> pull_request,
     comment |-> comment, refPull |-> refPull]
\* a comment on the thread (issue_comment): ref is the default branch
IssueCommentEvent == Event(TRUE, FALSE, TRUE, FALSE)
\* a push to / (re)opening of the pull request (pull_request)
PullRequestEvent == Event(FALSE, TRUE, FALSE, TRUE)
\* a comment on the diff (pull_request_review_comment)
ReviewCommentEvent == Event(FALSE, TRUE, TRUE, TRUE)

\* validate_manifest.get_pr_number(event) is not None
HasPrNumber(event) == event.pull_request \/ event.refPull
\* bot_commands.get_pr_number_from_event(payload) is not None
HasPrNumberFromEvent(payload) == payload.issue \/ payload.refPull

(* ---------------- validate_manifest.main ---------------- *)
\* lines 137-140
LabelsOnErrors(lbls) == (lbls \ {ON_REVIEW}) \cup {INVALID}
\* lines 149-152
LabelsOnSuccess(lbls) == (lbls \ {INVALID}) \cup {ON_REVIEW}

Run(ran, lbls, posted, exit, errors) ==
    [ran |-> ran, labels |-> lbls, posted |-> posted, exit |-> exit,
     errors |-> errors]
(* A run ended by an uncaught exception in the loop over the manifests:    *)
(* the interpreter exits with status 1 before line 134, no label is read   *)
(* or changed and no comment is posted.                                    *)
Crash(lbls) == Run(FALSE, lbls, <<>>, 1, <<>>)

(* One run of validate_manifest.main (lines 47-159) on the thread with     *)
(* labels lbls and the checkout (files, ic), the downloads answering net:  *)
(* whether it got as far as validating, the labels it leaves, the comments *)
(* it posts, its exit status and its errors list.                          *)
ValidateMain(event, lbls, files, ic, net) ==
    LET manifests == ManifestPaths(PRFiles)
        errors == Errors(manifests, files, ic, net)
    IN  IF ~HasPrNumber(event) THEN Run(FALSE, lbls, <<>>, 0, <<>>)
        ELSE IF manifests = <<>> THEN Run(FALSE, lbls, <<>>, 0, <<>>)
        ELSE IF Crashes(manifests, files) THEN Crash(lbls)
        ELSE IF errors # <<>>
             THEN Run(TRUE, LabelsOnErrors(lbls), <<"validation_failed">>, 1, errors)
             ELSE Run(TRUE, LabelsOnSuccess(lbls), <<"validation_ok">>, 0, errors)

(* ---------------- thread comments and the hash ledger ---------------- *)
(* What a comment body holds of a ledger block: no start marker ("none"),  *)
(* a start marker without the end marker after it ("unterminated"), text   *)
(* between the markers that is not JSON ("badjson"), or JSON: an object    *)
(* mapping paths to digests ("object", data) or null ("null").             *)
NoBlock == [kind |-> "none", data |-> <<>>]
Unterminated == [kind |-> "unterminated", data |-> <<>>]
BadJson == [kind |-> "badjson", data |-> <<>>]
JsonNull == [kind |-> "null", data |-> <<>>]
Ledger(data) == [kind |-> "object", data |-> data]

(* The scan of line 35-37 skips every comment without the start marker,   *)
(* and none of the texts the two scripts post holds it: the thread's       *)
(* comments are kept as the blocks of those that hold a start marker,      *)
(* oldest first.                                                           *)
WithComment(cmts, block) == IF block = NoBlock THEN cmts ELSE Append(cmts, block)

(* find_manifest_hash_comment (lines 34-46), scanning from index i down:   *)
(* c is the index of the comment returned (0 for None), none says whether  *)
(* the data returned is None, data is the mapping otherwise.               *)
RECURSIVE FindFrom(_, _)
FindFrom(cmts, i) ==
    IF i = 0 THEN [c |-> 0, none |-> TRUE, data |-> <<>>]
    ELSE LET b == cmts[i] IN
         IF b.kind = "object" THEN [c |-> i, none |-> FALSE, data |-> b.data]
         ELSE IF b.kind = "null" THEN [c |-> i, none |-> TRUE, data |-> <<>>]
         ELSE FindFrom(cmts, i - 1)
find_manifest_hash_comment(cmts) == FindFrom(cmts, Len(cmts))

\* compute_local_hashes (lines 48-57), for one path
LocalHash(files, p) ==
    IF files[p] = Missing THEN Null ELSE sha256_bytes(files[p].bytes)
\* stored_hashes.get(p)
StoredHash(data, p) == IF p \in DOMAIN data THEN data[p] ELSE Null

RECURSIVE BrokenMismatches(_, _, _)
BrokenMismatches(paths, data, files) ==
    IF paths = <<>> THEN <<>>
    ELSE LET p == Head(paths) IN
         IF LocalHash(files, p) = Null THEN <<[path |-> p, why |-> "missing"]>>
         ELSE IF StoredHash(data, p) # LocalHash(files, p)
         THEN <<[path |-> p, why |-> "changed"]>>
         ELSE BrokenMismatches(Tail(paths), data, files)
(* lines 133-144: the mismatch messages, one per offending path *)
RECURSIVE Mismatches(_, _, _)
Mismatches(paths, data, files) ==
    IF paths = <<>> THEN <<>>
    ELSE LET p == Head(paths)
             stored == StoredHash(data, p)
             current == LocalHash(files, p)
         IN (IF current = Null THEN <<[path |-> p, why |-> "missing"]>>
             ELSE IF stored # current THEN <<[path |-> p, why |-> "changed"]>>
             ELSE <<>>) \o Mismatches(Tail(paths), data, files)

(* ---------------- bot_commands.main ---------------- *)
(* A comment body, as the set of the substrings the handler looks for.     *)
Bodies ==
    { {}, {"@bot"}, {"@bot", "@bot check"}, {"@bot", "@bot allow"},
      {"@bot", "@bot deny"} }

\* the body reaches line 111 and passes its test
IsAllowDenyBody(body) ==
    "@bot check" \notin body /\ ("@bot allow" \in body \/ "@bot deny" \in body)

\* pr.merge raises unless the pull request is open
MergeOk(pr) == pr = "open"
\* pr.edit(state="closed")
Closed(pr) == IF pr = "merged" THEN "merged" ELSE "closed"

(* What a run did: the labels and state it leaves, the comments it posted, *)
(* the host actions it invoked, its exit status, whether it validated and  *)
(* the errors list of that validation, the paths its rejection lists,      *)
(* whether a call to the host raised.                                      *)
Out(lbls, pr, posted, invoked, exit, ran, errors) ==
    [labels |-> lbls, pr |-> pr, posted |-> posted, invoked |-> invoked,
     exit |-> exit, ran |-> ran, errors |-> errors, listed |-> <<>>,
     hostFailed |-> FALSE]
\* a run in which a call to the host raised
HostFailed(out) == [out EXCEPT !.hostFailed = TRUE]
\* lines 146-157: the rejection that lists mismatch_msgs
OutStale(lbls, pr, mismatch_msgs) ==
    [Out(lbls, pr, <<"changed_since_validation">>, {}, 0, FALSE, <<>>)
       EXCEPT !.listed = mismatch_msgs]

\* lines 100-108
BotCheck(event, user, lbls, pr, files, ic, net) ==
    LET res == ValidateMain(event, lbls, files, ic, net) IN
    Out(res.labels, pr,
        <<"running">> \o res.posted
          \o (IF res.exit = 0 THEN <<"completed">> ELSE <<"completed_with_errors">>),
        {}, 0, res.ran, res.errors)

\* lines 146-157
BrokenLabelsOnStale(lbls) == lbls
LabelsOnStale(lbls) == (lbls \ {ON_REVIEW}) \cup {INVALID}
\* lines 164-171
LabelsOnMerge(lbls) == (lbls \ {ON_REVIEW}) \cup {APPROVED}
\* lines 179-186
LabelsOnClose(lbls) == (lbls \ {ON_REVIEW}) \cup {REJECTED}

\* line 112
BrokenIsModerator(user) == TRUE
IsModerator(user) == user = MODERATOR
\* line 117
BrokenMarkedOnReview(lbls) == TRUE
MarkedOnReview(lbls) == ON_REVIEW \in lbls

\* lines 111-192
BotAllowDeny(user, body, cmts, lbls, pr, files) ==
    LET found == find_manifest_hash_comment(cmts)
        manifest_paths == ManifestPaths(PRFiles)
        mismatch_msgs == Mismatches(manifest_paths, found.data, files)
    IN  IF ~IsModerator(user)
        THEN Out(lbls, pr, <<"only_moderator">>, {}, 0, FALSE, <<>>)
        ELSE IF ~MarkedOnReview(lbls)
        THEN Out(lbls, pr, <<"not_on_review">>, {}, 0, FALSE, <<>>)
        ELSE IF found.none
        THEN Out(lbls, pr, <<"no_stored_hashes">>, {}, 0, FALSE, <<>>)
        ELSE IF mismatch_msgs # <<>>
        THEN OutStale(LabelsOnStale(lbls), pr, mismatch_msgs)
        ELSE IF "@bot allow" \in body
        THEN (IF MergeOk(pr)
              THEN Out(LabelsOnMerge(lbls), "merged", <<"merged">>, {"merge"}, 0,
                       FALSE, <<>>)
              ELSE HostFailed(Out(lbls, pr, <<"merge_failed">>, {"merge"}, 1,
                                  FALSE, <<>>)))
        ELSE Out(LabelsOnClose(lbls), Closed(pr), <<"closed">>, {"close"}, 0,
                 FALSE, <<>>)

BrokenMentionsBot(body) == TRUE
\* line 95: "@bot" in comment_body
MentionsBot(body) == "@bot" \in body

(* One run of bot_commands.main (lines 59-196) for a comment by user with  *)
(* body, on the thread whose comments are cmts.                            *)
BotMain(event, user, body, cmts, lbls, pr, files, ic, net) ==
    IF ~HasPrNumberFromEvent(event)
    THEN Out(lbls, pr, <<>>, {}, 0, FALSE, <<>>)
    ELSE IF ~MentionsBot(body)
    THEN Out(lbls, pr, <<>>, {}, 0, FALSE, <<>>)
    ELSE IF "@bot check" \in body
    THEN BotCheck(event, user, lbls, pr, files, ic, net)
    ELSE IF "@bot allow" \in body \/ "@bot deny" \in body
    THEN BotAllowDeny(user, body, cmts, lbls, pr, files)
    ELSE Out(lbls, pr, <<"unknown_command">>, {}, 0, FALSE, <<>>)

(* ---------------- the inputs the model draws from ---------------- *)
GoodA == Manifest("mA", TRUE, "x", "u1", sha256_bytes("c1"))
GoodB == Manifest("mB", TRUE, "x", "u1", sha256_bytes("c1"))
EmptyUrl == Manifest("mE", TRUE, "x", "", sha256_bytes("c1"))
ManifestSamples == {GoodA, GoodB, EmptyUrl}

GoodIcon == Icon(ICON_MAX_SIZE, "PNG", ICON_WIDTH, ICON_HEIGHT)
BigJpeg == Icon(ICON_MAX_SIZE + 1, "JPEG", ICON_WIDTH, ICON_HEIGHT)
\* the icon files of the checkout a validation run may find
IconStates == [{"x"} -> {GoodIcon, BigJpeg}]

Good200 == Response(200, "c1")
Nets == [{"u1"} -> {Good200, Response(200, "c2"), Response(404, ""), Timeout}]

LedgerA == Ledger([p \in {ManifestX} |-> sha256_bytes("mA")])
LedgerB == Ledger([p \in {ManifestX} |-> sha256_bytes("mB")])
Blocks == {NoBlock, LedgerA, LedgerB}

(* ---------------- state ---------------- *)
(* labels    the labels of the pull request                                *)
(* comments  the comments of the thread that hold a start marker           *)
(* prState   "open", "merged" or "closed"                                  *)
(* fs        the checkout: the manifest file at each manifest path         *)
(* bot, val  a bot_commands.py run and a validate_manifest.py run that are  *)
(*           under way at the same time: the line each has reached and its *)
(*           local variables (used by SpecConc only)                       *)
(* last      the run that led to this state: its inputs (ic, net: the icon *)
(*           files and the downloads a validation finds); the labels, the  *)
(*           state and the ledger of the thread as it found them (ledger0: *)
(*           before the comment that started it was posted); what it did;  *)
(*           whether a call to the host failed in it                       *)
NoEvent == Event(FALSE, FALSE, FALSE, FALSE)
Last(op, event, user, body, ic, net, preLabels, prePR, ledger0, preLedger, out) ==
    [op |-> op, event |-> event, user |-> user, body |-> body,
     ic |-> ic, net |-> net,
     preLabels |-> preLabels, prePR |-> prePR,
     ledger0 |-> ledger0, preLedger |-> preLedger,
     posted |-> out.posted, invoked |-> out.invoked, exit |-> out.exit,
     ran |-> out.ran, errors |-> out.errors, listed |-> out.listed,
     hostFailed |-> out.hostFailed]
NoIcons == [k \in {"x"} |-> GoodIcon]
NoNet == [u \in {"u1"} |-> Good200]
Idle(op) ==
    Last(op, NoEvent, "", {}, NoIcons, NoNet, {}, "open",
         find_manifest_hash_comment(<<>>),
         find_manifest_hash_comment(<<>>),
         Out({}, "open", <<>>, {}, 0, FALSE, <<>>))

BotIdle == [pc |-> "idle", body |-> {}, stored |-> <<>>]
ValIdle == [pc |-> "idle", failed |-> FALSE, labels |-> {}]

Init ==
    /\ bot = BotIdle
    /\ val = ValIdle
    /\ labels = {}
    /\ comments = <<>>
    /\ prState = "open"
    /\ fs \in [{ManifestX} -> ManifestSamples]
    /\ last = Idle("none")

(* The contributor pushes a commit that changes or removes a manifest file. *)
EditManifest ==
    \E p \in DOMAIN fs, m \in ManifestSamples \cup {Missing} :
        /\ fs[p] # m
        /\ fs' = [fs EXCEPT ![p] = m]
        /\ last' = Idle("edit")
        /\ UNCHANGED <<labels, comments, prState, bot, val>>

(* A workflow run of validate_manifest.py, started by an event of the pull *)
(* request or of the thread.                                               *)
Validate ==
    \E event \in {PullRequestEvent, IssueCommentEvent}, ic \in IconStates,
       net \in Nets :
        \E res \in {ValidateMain(event, labels, fs, ic, net)} :
            /\ labels' = res.labels
            /\ last' = Last("validate", event, "", {}, ic, net, labels, prState,
                            find_manifest_hash_comment(comments),
                            find_manifest_hash_comment(comments),
                            Out(res.labels, prState, res.posted, {}, res.exit,
                                res.ran, res.errors))
            /\ UNCHANGED <<comments, prState, fs, bot, val>>

(* A workflow run of bot_commands.py for a comment by user.  A comment of  *)
(* the thread (issue_comment) is among the thread's comments when the run  *)
(* starts; a comment on the diff is not.                                   *)
BotCommand ==
    \E event \in {IssueCommentEvent, ReviewCommentEvent}, user \in Users,
       body \in Bodies :
        \E block \in (IF event.issue THEN Blocks ELSE {NoBlock}),
           ic \in (IF "@bot check" \in body /\ HasPrNumber(event)
                   THEN IconStates ELSE {NoIcons}),
           net \in (IF "@bot check" \in body /\ HasPrNumber(event)
                    THEN Nets ELSE {NoNet}) :
            \E cmts \in {WithComment(comments, block)} :
                \E out \in {BotMain(event, user, body, cmts, labels, prState,
                                    fs, ic, net)} :
                    /\ Len(cmts) <= MaxComments
                    /\ labels' = out.labels
                    /\ prState' = out.pr
                    /\ comments' = cmts
                    /\ last' = Last("bot", event, user, body, ic, net, labels,
                                    prState,
                                    find_manifest_hash_comment(comments),
                                    find_manifest_hash_comment(cmts), out)
                    /\ UNCHANGED <<fs, bot, val>>

Next == EditManifest \/ Validate \/ BotCommand

Spec == Init /\ [][Next]_vars

(* ---------------- overlapping runs ---------------- *)
(* Neither script takes a lock or checks for another run of the same       *)
(* thread: a bot_commands.py run handling allow or deny and a              *)
(* validate_manifest.py run proceed one host call at a time, in any order. *)

\* lines 81-114: the comment is on the thread; the run starts
CBotStart ==
    \E user \in Users, body \in {b \in Bodies : IsAllowDenyBody(b)},
       block \in Blocks :
        /\ bot.pc = "idle"
        /\ Len(WithComment(comments, block)) <= MaxComments
        /\ comments' = WithComment(comments, block)
        /\ bot' = IF IsModerator(user)
                  THEN [pc |-> "labels", body |-> body, stored |-> <<>>]
                  ELSE BotIdle
        /\ UNCHANGED <<labels, prState, fs, last, val>>

\* lines 116-119
CBotLabels ==
    /\ bot.pc = "labels"
    /\ bot' = IF MarkedOnReview(labels) THEN [bot EXCEPT !.pc = "comments"]
              ELSE BotIdle
    /\ UNCHANGED <<labels, comments, prState, fs, last, val>>

\* lines 122-126
CBotComments ==
    /\ bot.pc = "comments"
    /\ LET found == find_manifest_hash_comment(comments) IN
       bot' = IF found.none THEN BotIdle
              ELSE [bot EXCEPT !.pc = "hashes", !.stored = found.data]
    /\ UNCHANGED <<labels, comments, prState, fs, last, val>>

\* lines 129-145
CBotHashes ==
    /\ bot.pc = "hashes"
    /\ bot' = [bot EXCEPT !.pc =
                 IF Mismatches(ManifestPaths(PRFiles), bot.stored, fs) # <<>>
                 THEN "stale_remove" ELSE "act"]
    /\ UNCHANGED <<labels, comments, prState, fs, last, val>>

\* lines 147-152
CBotStaleRemove ==
    /\ bot.pc = "stale_remove"
    /\ labels' = labels \ {ON_REVIEW}
    /\ bot' = [bot EXCEPT !.pc = "stale_add"]
    /\ UNCHANGED <<comments, prState, fs, last, val>>

\* lines 153-157
CBotStaleAdd ==
    /\ bot.pc = "stale_add"
    /\ labels' = labels \cup {INVALID}
    /\ bot' = BotIdle
    /\ UNCHANGED <<comments, prState, fs, last, val>>

\* line 162, or line 178
CBotAct ==
    /\ bot.pc = "act"
    /\ IF "@bot allow" \in bot.body
       THEN IF MergeOk(prState)
            THEN prState' = "merged" /\ bot' = [bot EXCEPT !.pc = "done_remove"]
            ELSE prState' = prState /\ bot' = BotIdle
       ELSE prState' = Closed(prState) /\ bot' = [bot EXCEPT !.pc = "done_remove"]
    /\ UNCHANGED <<labels, comments, fs, last, val>>

\* lines 164-167, or lines 179-182
CBotDoneRemove ==
    /\ bot.pc = "done_remove"
    /\ labels' = labels \ {ON_REVIEW}
    /\ bot' = [bot EXCEPT !.pc = "done_add"]
    /\ UNCHANGED <<comments, prState, fs, last, val>>

\* lines 168-172, or lines 183-187
CBotDoneAdd ==
    /\ bot.pc = "done_add"
    /\ labels' = labels \cup {IF "@bot allow" \in bot.body THEN APPROVED ELSE REJECTED}
    /\ bot' = BotIdle
    /\ UNCHANGED <<comments, prState, fs, last, val>>

\* lines 47-132: the run starts and checks the manifests of the checkout
CValStart ==
    \E ic \in IconStates, net \in Nets :
        /\ val.pc = "idle"
        /\ val' = [pc |-> "labels", labels |-> {},
                   failed |-> Errors(ManifestPaths(PRFiles), fs, ic, net) # <<>>]
        /\ UNCHANGED <<labels, comments, prState, fs, last, bot>>

\* line 134
CValLabels ==
    /\ val.pc = "labels"
    /\ val' = [val EXCEPT !.pc = "remove", !.labels = labels]
    /\ UNCHANGED <<labels, comments, prState, fs, last, bot>>

(* lines 137-138, or lines 149-150: the label this run saw is removed; the *)
(* host answers 404 when it is no longer there, which ends the run.        *)
CValRemove ==
    /\ val.pc = "remove"
    /\ LET l == IF val.failed THEN ON_REVIEW ELSE INVALID IN
       IF l \notin val.labels
       THEN labels' = labels /\ val' = [val EXCEPT !.pc = "add"]
       ELSE IF l \in labels
       THEN labels' = labels \ {l} /\ val' = [val EXCEPT !.pc = "add"]
       ELSE labels' = labels /\ val' = ValIdle
    /\ UNCHANGED <<comments, prState, fs, last, bot>>

\* lines 139-147, or lines 151-159
CValAdd ==
    /\ val.pc = "add"
    /\ LET l == IF val.failed THEN INVALID ELSE ON_REVIEW IN
       labels' = IF l \notin val.labels THEN labels \cup {l} ELSE labels
    /\ val' = ValIdle
    /\ UNCHANGED <<comments, prState, fs, last, bot>>

\* the contributor pushes a commit while runs are under way
CEditManifest ==
    \E p \in DOMAIN fs, m \in ManifestSamples \cup {Missing} :
        /\ fs[p] # m
        /\ fs' = [fs EXCEPT ![p] = m]
        /\ UNCHANGED <<labels, comments, prState, last, bot, val>>

NextConc ==
    \/ CBotStart \/ CBotLabels \/ CBotComments \/ CBotHashes
    \/ CBotStaleRemove \/ CBotStaleAdd \/ CBotAct \/ CBotDoneRemove \/ CBotDoneAdd
    \/ CValStart \/ CValLabels \/ CValRemove \/ CValAdd
    \/ CEditManifest

SpecConc == Init /\ [][NextConc]_vars

(* ======================= properties ======================= *)
ManifestSet == Range(ManifestPaths(PRFiles))
IsAllowDeny(body) == IsAllowDenyBody(body)
\* the ledger the thread held when the last run started
Stored == last.preLedger
\* path p is recorded in that ledger and the checkout no longer agrees
StaleAt(p) ==
    /\ ~Stored.none
    /\ p \in DOMAIN Stored.data
    /\ (fs[p] = Missing \/ sha256_bytes(fs[p].bytes) # Stored.data[p])
ModeratorDecision ==
    last.op = "bot" /\ last.user = MODERATOR /\ IsAllowDeny(last.body)

C2_ApprovalOnlyFromOnReview ==
    /\ last.invoked # {}
        => (/\ last.op = "bot"
            /\ ON_REVIEW \in last.preLabels
            /\ ~last.preLedger.none)
    /\ (/\ last.op = "bot"
        /\ IsAllowDeny(last.body)
        /\ (ON_REVIEW \notin last.preLabels \/ last.preLedger.none))
        => (/\ last.invoked = {}
            /\ prState = last.prePR
            /\ labels = last.preLabels
            /\ Len(last.posted) = 1
            /\ last.posted[1] \in {"only_moderator", "not_on_review",
                                   "no_stored_hashes"})
C2_Witness ==
    /\ ModeratorDecision
    /\ last.preLabels \cap StatusLabels = {}
    /\ ~last.preLedger.none
    /\ ~StaleAt(ManifestX)
    /\ last.posted = <<"not_on_review">>

(* C3: an allow or deny by anyone but the moderator is rejected and leaves  *)
(* the labels, the ledger and the merged/closed status as they were.        *)
C3_Authorization ==
    (last.op = "bot" /\ last.user # MODERATOR /\ IsAllowDeny(last.body))
    => (/\ labels = last.preLabels
        /\ prState = last.prePR
        /\ last.invoked = {}
        /\ find_manifest_hash_comment(comments) = last.preLedger
        /\ last.posted = <<"only_moderator">>)
C3_Witness ==
    /\ last.op = "bot" /\ last.user # MODERATOR /\ IsAllowDeny(last.body)
    /\ ON_REVIEW \in labels
    /\ ~last.preLedger.none
    /\ ~StaleAt(ManifestX)
    /\ prState = "open"

\* the last run validated the changed manifests (directly or for a check)
Validated == last.op \in {"validate", "bot"} /\ last.ran
\* the defects of the checkout the last run was started on
Defects == Errors(ManifestPaths(PRFiles), fs, last.ic, last.net)
\* what lookup returns on the thread as it is now
Lookup == find_manifest_hash_comment(comments)

(* C4: whenever a validation pass reports zero defects the thread is        *)
(* labelled On review and the ledger of the thread holds the current digest *)
(* of every validated manifest path, so that a later lookup returns it.     *)
C4_SuccessRecordsLedger ==
    (Validated /\ last.errors = <<>>)
    => (/\ ON_REVIEW \in labels
        /\ ~Lookup.none
        /\ \A p \in ManifestSet :
              /\ p \in DOMAIN Lookup.data
              /\ Lookup.data[p] = LocalHash(fs, p))

\* the download of manifest path p was made, answered 200, and its bytes
\* hash to the declared sha256
Downloaded(p) ==
    /\ fs[p] # Missing
    /\ fs[p].json
    /\ LET url == Get(fs[p], "url") IN
       /\ Truthy(url)
       /\ ~last.net[url].exc
       /\ last.net[url].status = 200
       /\ sha256_bytes(last.net[url].content) = Get(fs[p], "sha256")

(* C5: a validation pass leaves the thread On review only if the download   *)
(* of every changed manifest answered 200 with bytes that hash to the       *)
(* declared sha256; otherwise (a mismatch, or no download compared at all)  *)
(* the pass reports a defect and leaves the thread Invalid manifest.        *)
C5_DownloadIntegrity ==
    Validated
    => IF \A p \in ManifestSet : Downloaded(p)
       THEN TRUE
       ELSE /\ last.errors # <<>>
            /\ INVALID \in labels
            /\ ON_REVIEW \notin labels

(* C6: the thread never carries more than one of the status labels          *)
(* On review, Invalid manifest, Approved, Rejected.                         *)
C6_LabelExclusivity == Cardinality(labels \cap StatusLabels) <= 1

(* C7: a check command in a comment of the thread, by any actor and in any  *)
(* state, validates the changed manifests and leaves the thread Invalid     *)
(* manifest if there is a defect and On review if there is none.            *)
C7_Recheck ==
    (last.op = "bot" /\ "@bot check" \in last.body /\ last.event = IssueCommentEvent)
    => (/\ last.ran
        /\ IF Defects # <<>>
           THEN INVALID \in labels /\ ON_REVIEW \notin labels
           ELSE ON_REVIEW \in labels /\ INVALID \notin labels)

(* C8: runs for the same thread are serialized: while one run is under way  *)
(* no step of another is taken, so the pull request is merged only while    *)
(* the thread is labelled On review and not Invalid manifest.               *)
C8_MergeOnlyWhileOnReview ==
    [][(prState = "open" /\ prState' = "merged")
       => (ON_REVIEW \in labels /\ INVALID \notin labels)]_vars

(* C9: what lookup returns for the thread is changed only by a validation   *)
(* pass without defects: never by a comment of a contributor or of anyone   *)
(* else, never by the handling of allow or deny.                            *)
C9_LedgerProvenance ==
    Lookup # last.ledger0 => (Validated /\ last.errors = <<>>)

(* C10: a validation run, and a run handling a check command, exits         *)
(* non-zero when the validation found a defect, and exits 0 when there was  *)
(* no defect and no authorization failure.                                  *)
C10_ExitStatus ==
    /\ (Validated /\ last.errors # <<>>) => last.exit # 0
    /\ ((last.op = "validate" \/ (last.op = "bot" /\ "@bot check" \in last.body))
        /\ last.errors = <<>>) => last.exit = 0

(* ================================================================ *)
(* The validator on one manifest file, over what the file may hold: *)
(* an object with any set of the required keys removed, an object   *)
(* with one required key null, a JSON array.                        *)
(* ================================================================ *)
NullField(k) == WithField(GoodA, k, Null)
FieldManifests ==
    {WithoutFields(GoodA, S, 1) : S \in SUBSET FieldSet}
        \cup {NullField(k) : k \in FieldSet}
        \cup {JsonArray("[]")}

InitFields ==
    /\ bot = BotIdle
    /\ val = ValIdle
    /\ labels = {}
    /\ comments = <<>>
    /\ prState = "open"
    /\ fs \in [{ManifestX} -> FieldManifests]
    /\ last = Idle("none")

(* A run of validate_manifest.py started by an event of the pull request,  *)
(* finding the icon files ic and the downloads net.                        *)
ValidatePush(icons, nets) ==
    \E ic \in icons, net \in nets :
        \E res \in {ValidateMain(PullRequestEvent, labels, fs, ic, net)} :
            /\ labels' = res.labels
            /\ last' = Last("validate", PullRequestEvent, "", {}, ic, net,
                            labels, prState,
                            find_manifest_hash_comment(comments),
                            find_manifest_hash_comment(comments),
                            Out(res.labels, prState, res.posted, {}, res.exit,
                                res.ran, res.errors))
            /\ UNCHANGED <<comments, prState, fs, bot, val>>

ValidateFields == ValidatePush(IconStates, Nets)
NextFields == ValidateFields
SpecFields == InitFields /\ [][NextFields]_vars

\* the manifest files of the checkout that parsed to an object
Objects == {p \in ManifestSet : fs[p] # Missing /\ fs[p].json /\ fs[p].object}
\* a validation run that ended by itself (no uncaught exception)
Completed == last.op = "validate" /\ ~(last.exit = 1 /\ last.posted = <<>>)

(* C11: a validation pass leaves the thread On review only if every        *)
(* changed manifest has every required field present and not null; a       *)
(* manifest with a required field present but null yields a defect and     *)
(* the thread ends in Invalid manifest.                                    *)
C11_RequiredFieldsNonNull ==
    Completed =>
        /\ (ON_REVIEW \in labels =>
               \A p \in ManifestSet :
                   /\ p \in Objects
                   /\ \A k \in FieldSet : fs[p].f[k] \notin {Absent, Null})
        /\ ((\E p \in Objects : \E k \in FieldSet : fs[p].f[k] = Null) =>
               /\ last.errors # <<>>
               /\ INVALID \in labels
               /\ ON_REVIEW \notin labels)

\* the thread as the last run found it, but for the comments it posted
Untouched ==
    /\ labels = last.preLabels
    /\ prState = last.prePR
    /\ last.invoked = {}
    /\ find_manifest_hash_comment(comments) = last.preLedger
\* a comment that names none of the three commands
NoCommand(body) ==
    body \cap {"@bot check", "@bot allow", "@bot deny"} = {}

(* C12: a comment without the marker produces no comment, no label change  *)
(* and no merge or close; a comment with the marker but none of check,     *)
(* allow, deny produces exactly one acknowledgment and leaves labels,      *)
(* ledger and merged/closed status unchanged, whoever wrote it and         *)
(* whatever the state of the thread.                                       *)
C12_NonCommandsChangeNothing ==
    (last.op = "bot" /\ NoCommand(last.body)) =>
        /\ Untouched
        /\ last.posted = IF "@bot" \in last.body
                         THEN <<"unknown_command">> ELSE <<>>
\* the Moderator writes "@bot" alone on a thread that is On review
C12_Witness ==
    /\ last.op = "bot"
    /\ last.user = MODERATOR
    /\ last.body = {"@bot"}
    /\ ON_REVIEW \in last.preLabels
    /\ last.posted = <<"unknown_command">>

(* ================================================================ *)
(* Calls to the host that fail.  h tells, for one run, whether its  *)
(* merge or close call (act), its remove_from_labels call (remove)  *)
(* and its add_to_labels call (add) succeed.                        *)
(* ================================================================ *)
HostOutcomes == [act : BOOLEAN, remove : BOOLEAN, add : BOOLEAN]
\* try: pr.remove_from_labels(l) / except Exception: pass
TryRemove(lbls, l, ok) == IF ok THEN lbls \ {l} ELSE lbls
\* try: pr.add_to_labels(l) / except Exception: pass
TryAdd(lbls, l, ok) == IF ok THEN lbls \cup {l} ELSE lbls
\* the label update of lines 149-156, 164-171 and 179-186
TrySwap(out, lbls, l, h) ==
    [out EXCEPT !.labels = TryAdd(TryRemove(lbls, ON_REVIEW, h.remove), l, h.add),
                !.hostFailed = ~h.remove \/ ~h.add]

(* bot_commands.main lines 110-192 on a host whose calls answer h: the     *)
(* run takes the branch it takes on a host that answers every call, and    *)
(* the calls of that branch succeed or raise as h tells.                   *)
BotAllowDenyHost(user, body, cmts, lbls, pr, files, h) ==
    LET out == BotAllowDeny(user, body, cmts, lbls, pr, files) IN
    IF out.posted = <<"changed_since_validation">>
    THEN TrySwap(out, lbls, INVALID, h)
    ELSE IF out.invoked = {"merge"}
    THEN (IF MergeOk(pr) /\ h.act
          THEN TrySwap(out, lbls, APPROVED, h)
          ELSE HostFailed(Out(lbls, pr, <<"merge_failed">>, {"merge"}, 1,
                              FALSE, <<>>)))
    ELSE IF out.invoked = {"close"}
    THEN (IF h.act
          THEN TrySwap(out, lbls, REJECTED, h)
          ELSE HostFailed(Out(lbls, pr, <<"close_failed">>, {"close"}, 1,
                              FALSE, <<>>)))
    ELSE out

(* validate_manifest.main lines 134-159 on a host whose calls answer h:    *)
(* a label call that raises is not caught, the run ends there with status  *)
(* 1, keeping the label changes made before it and posting no comment.     *)
ValidateMainHost(event, lbls, files, ic, net, h) ==
    LET res == ValidateMain(event, lbls, files, ic, net)
        out == Out(res.labels, "open", res.posted, {}, res.exit, res.ran,
                   res.errors)
        removed == IF res.errors # <<>> THEN ON_REVIEW ELSE INVALID
        added == IF res.errors # <<>> THEN INVALID ELSE ON_REVIEW
        raised(kept) ==
            HostFailed(Out(kept, "open", <<>>, {}, 1, res.ran, res.errors))
    IN  IF ~res.ran THEN out
        ELSE IF removed \in lbls /\ ~h.remove THEN raised(lbls)
        ELSE IF added \notin lbls /\ ~h.add THEN raised(lbls \ {removed})
        ELSE out

HostIcons == [{"x"} -> {GoodIcon, BigJpeg}]
InitHost ==
    /\ bot = BotIdle
    /\ val = ValIdle
    /\ labels = {}
    /\ comments = <<>>
    /\ prState = "open"
    /\ fs \in [{ManifestX} -> {GoodA, GoodB}]
    /\ last = Idle("none")

HostEditManifest ==
    \E p \in DOMAIN fs, m \in {GoodA, GoodB} :
        /\ fs[p] # m
        /\ fs' = [fs EXCEPT ![p] = m]
        /\ last' = Idle("edit")
        /\ UNCHANGED <<labels, comments, prState, bot, val>>

HostValidate ==
    \E ic \in HostIcons, h \in HostOutcomes :
        \E out \in {ValidateMainHost(PullRequestEvent, labels, fs, ic, NoNet, h)} :
            /\ labels' = out.labels
            /\ last' = Last("validate", PullRequestEvent, "", {}, ic, NoNet,
                            labels, prState,
                            find_manifest_hash_comment(comments),
                            find_manifest_hash_comment(comments),
                            [out EXCEPT !.pr = prState])
            /\ UNCHANGED <<comments, prState, fs, bot, val>>

HostBotCommand ==
    \E body \in {b \in Bodies : IsAllowDenyBody(b)}, block \in Blocks,
       h \in HostOutcomes :
        \E cmts \in {WithComment(comments, block)} :
            \E out \in {BotAllowDenyHost(MODERATOR, body, cmts, labels, prState,
                                         fs, h)} :
                /\ Len(cmts) <= MaxComments
                /\ labels' = out.labels
                /\ prState' = out.pr
                /\ comments' = cmts
                /\ last' = Last("bot", IssueCommentEvent, MODERATOR, body,
                                NoIcons, NoNet, labels, prState,
                                find_manifest_hash_comment(comments),
                                find_manifest_hash_comment(cmts), out)
                /\ UNCHANGED <<fs, bot, val>>

NextHost == HostEditManifest \/ HostValidate \/ HostBotCommand
SpecHost == InitHost /\ [][NextHost]_vars

(* C13: when a merge, close, add-label or remove-label call fails during   *)
(* a run, the failure is surfaced and the run leaves the status label and  *)
(* the merged/closed status as they were; the thread is never left merged  *)
(* or closed while still On review, and never reported as approved or      *)
(* rejected when a label update failed.                                    *)
C13_HostFailureAborts ==
    last.hostFailed =>
        /\ labels = last.preLabels
        /\ prState = last.prePR
        /\ last.exit # 0
        /\ ~(prState \in {"merged", "closed"} /\ ON_REVIEW \in labels)
        /\ last.posted \notin {<<"merged">>, <<"closed">>}

\* the manifest files of the checkout that json.load parses
Parseable == {p \in ManifestSet : fs[p] # Missing /\ fs[p].json}
\* the entries of the reported errors list that name path p and are of kind
Reported(p, kind) ==
    {i \in DOMAIN last.errors :
        last.errors[i].path = p /\ last.errors[i].kind = kind}
\* the icon and the download the last run found for the manifest at p
IconFound(p) == IconAt(last.ic, Get(fs[p], "package"))
Fetched(p) == last.net[Get(fs[p], "url")]

(* The report holds the outcome of every check of the manifest at p: one   *)
(* missing-field defect for each absent required field and none for a      *)
(* present one, the defects of the icon found, the defect of a download    *)
(* that answers 404.                                                       *)
FullyChecked(p) ==
    /\ \A k \in FieldSet :
           Cardinality({i \in Reported(p, "missing_field") :
                           last.errors[i].info = k})
               = IF fs[p].f[k] = Absent THEN 1 ELSE 0
    /\ IconFound(p) = Missing => Reported(p, "icon_missing") # {}
    /\ IconFound(p) = BigJpeg =>
           /\ Reported(IconPath(Get(fs[p], "package")), "icon_too_big") # {}
           /\ Reported(IconPath(Get(fs[p], "package")), "icon_not_png") # {}
    /\ (Truthy(Get(fs[p], "url")) /\ Fetched(p) = Response(404, "")) =>
           Reported(p, "http_status") # {}

(* C14: for every parseable manifest, validation reports exactly one       *)
(* missing-field defect for each required field absent from it, none for   *)
(* a field that is present, and goes on to the icon check and the          *)
(* remote-hash check whatever fields are missing.                          *)
C14_MissingFieldReporting ==
    last.op = "validate" => \A p \in Parseable : FullyChecked(p)
\* the same, for the manifests that parse to an object
C14_ObjectsReported ==
    (\A p \in Parseable : fs[p].object) => C14_MissingFieldReporting

(* ================================================================ *)
(* The validator over the icon files it may find: present or not,   *)
(* at or over the size ceiling, PNG, another image format or no     *)
(* image at all (Image.open raises), 32 or 64 pixels wide and high. *)
(* ================================================================ *)
IconFiles ==
    {Icon(size, format, width, height) :
        size \in {ICON_MAX_SIZE, ICON_MAX_SIZE + 1},
        format \in {"PNG", "JPEG"},
        width \in {ICON_WIDTH, 2 * ICON_WIDTH},
        height \in {ICON_HEIGHT, 2 * ICON_HEIGHT}}
      \cup {Icon(size, "corrupt", 0, 0) :
                size \in {ICON_MAX_SIZE, ICON_MAX_SIZE + 1}}
WideIcons == [{"x"} -> IconFiles \cup {Missing}]

InitIcons ==
    /\ bot = BotIdle
    /\ val = ValIdle
    /\ labels = {}
    /\ comments = <<>>
    /\ prState = "open"
    /\ fs \in [{ManifestX} -> {GoodA, EmptyUrl}]
    /\ last = Idle("none")
ValidateIcons == ValidatePush(WideIcons, Nets)
NextIcons == ValidateIcons
SpecIcons == InitIcons /\ [][NextIcons]_vars

\* how many entries of the reported errors list name path p with this kind
Count(p, kind) == Cardinality(Reported(p, kind))
IconKinds == {"icon_too_big", "icon_not_png", "icon_bad_dims", "icon_unreadable"}

(* C15: for an icon file that exists, each violated rule among size over   *)
(* 3072 bytes, format not PNG, dimensions not 32x32 yields its own defect  *)
(* in the same pass (an icon violating two rules yields both); a missing   *)
(* icon yields the single missing-icon defect.  A file that is no image    *)
(* has no format or dimensions to judge: it yields the one defect that     *)
(* says it cannot be read, next to the size defect if it is too big.       *)
C15_IconRulesIndependent ==
    last.op = "validate" =>
        \A p \in Objects :
            LET icon == IconFound(p)
                ipath == IconPath(Get(fs[p], "package"))
            IN  IF icon = Missing
                THEN /\ Count(p, "icon_missing") = 1
                     /\ \A kind \in IconKinds : Count(ipath, kind) = 0
                ELSE /\ Count(p, "icon_missing") = 0
                     /\ Count(ipath, "icon_too_big")
                            = IF icon.size > ICON_MAX_SIZE THEN 1 ELSE 0
                     /\ IF icon.format = "corrupt"
                        THEN /\ Count(ipath, "icon_unreadable") = 1
                             /\ Count(ipath, "icon_not_png") = 0
                             /\ Count(ipath, "icon_bad_dims") = 0
                        ELSE /\ Count(ipath, "icon_unreadable") = 0
                             /\ Count(ipath, "icon_not_png")
                                    = IF icon.format # "PNG" THEN 1 ELSE 0
                             /\ Count(ipath, "icon_bad_dims")
                                    = IF icon.width # ICON_WIDTH
                                         \/ icon.height # ICON_HEIGHT
                                      THEN 1 ELSE 0
\* an icon that is too big, a JPEG and 64 pixels wide: three defects at once
C15_Witness ==
    /\ last.op = "validate"
    /\ last.ic["x"] = Icon(ICON_MAX_SIZE + 1, "JPEG", 2 * ICON_WIDTH, ICON_HEIGHT)
    /\ Count(IconX, "icon_too_big") = 1
    /\ Count(IconX, "icon_not_png") = 1
    /\ Count(IconX, "icon_bad_dims") = 1
    /\ INVALID \in labels

\* the last run validated a thread that had no label and no ledger, and
\* found no defect
FirstValidationPassed ==
    /\ last.op = "validate"
    /\ last.ran
    /\ last.errors = <<>>
    /\ last.preLabels = {}
    /\ last.preLedger.none
    /\ prState = "open"
\* the next run handles a comment of the Moderator that holds cmd and no
\* ledger block
ModeratorSays(cmd) ==
    /\ last'.op = "bot"
    /\ last'.user = MODERATOR
    /\ last'.body = {"@bot", cmd}
    /\ comments' = comments

(* C16: from an unvalidated thread, when a validation pass reports zero    *)
(* defects and the manifest files are not changed afterwards, a following  *)
(* allow by the Moderator passes the gate, invokes merge once and leaves   *)
(* the thread Approved; a following deny invokes close and leaves it       *)
(* Rejected (the host calls succeeding).                                   *)
C16_ValidSubmissionApproved ==
    [][/\ (FirstValidationPassed /\ ModeratorSays("@bot allow")) =>
            /\ last'.invoked = {"merge"}
            /\ prState' = "merged"
            /\ labels' \cap StatusLabels = {APPROVED}
       /\ (FirstValidationPassed /\ ModeratorSays("@bot deny")) =>
            /\ last'.invoked = {"close"}
            /\ prState' = "closed"
            /\ labels' \cap StatusLabels = {REJECTED}]_vars

(* ================================================================ *)
(* The gate of allow and deny on a submission of two manifests, on  *)
(* a thread that is On review and holds one ledger: the ledger      *)
(* records any of the two paths with any of two digests, each file  *)
(* holds one of two contents or is gone from the checkout.          *)
(* ================================================================ *)
Digests == {sha256_bytes(GoodA.bytes), sha256_bytes(GoodB.bytes)}
Ledgers ==
    UNION {{Ledger(data) : data \in [paths -> Digests]} :
              paths \in SUBSET {ManifestX, ManifestY}}

InitGate ==
    /\ bot = BotIdle
    /\ val = ValIdle
    /\ labels = {ON_REVIEW}
    /\ \E ledger \in Ledgers : comments = <<ledger>>
    /\ prState = "open"
    /\ fs \in [{ManifestX, ManifestY} -> {GoodA, GoodB, Missing}]
    /\ last = Idle("none")

(* The Moderator comments allow or deny; the comment holds no ledger block. *)
GateCommand ==
    \E body \in {b \in Bodies : IsAllowDenyBody(b)} :
        \E out \in {BotMain(IssueCommentEvent, MODERATOR, body, comments,
                            labels, prState, fs, NoIcons, NoNet)} :
            /\ labels' = out.labels
            /\ prState' = out.pr
            /\ last' = Last("bot", IssueCommentEvent, MODERATOR, body, NoIcons,
                            NoNet, labels, prState,
                            find_manifest_hash_comment(comments),
                            find_manifest_hash_comment(comments), out)
            /\ UNCHANGED <<comments, fs, bot, val>>
NextGate == GateCommand
SpecGate == InitGate /\ [][NextGate]_vars

\* the manifest paths of the submission the ledger does not vouch for
Offending ==
    {p \in ManifestSet :
        \/ fs[p] = Missing
        \/ p \notin DOMAIN Stored.data
        \/ Stored.data[p] # sha256_bytes(fs[p].bytes)}
\* the last run reached the comparison of lines 128-144
GateReached ==
    /\ last.op = "bot"
    /\ last.user = MODERATOR
    /\ IsAllowDenyBody(last.body)
    /\ ON_REVIEW \in last.preLabels
    /\ ~Stored.none

(* C17: with a ledger present, allow and deny proceed if and only if every *)
(* manifest path of the submission exists in the checkout, has an entry in *)
(* the ledger and has a current digest equal to the recorded one;          *)
(* otherwise the rejection lists every offending path (removed, changed or *)
(* never recorded), each once.                                             *)
C17_VerifyExactExhaustive ==
    GateReached =>
        /\ last.invoked # {} <=> Offending = {}
        /\ Offending # {} =>
               /\ last.posted = <<"changed_since_validation">>
               /\ {last.listed[i].path : i \in DOMAIN last.listed} = Offending
               /\ Len(last.listed) = Cardinality(Offending)
               /\ \A i \in DOMAIN last.listed :
                      last.listed[i].why = "missing" <=> fs[last.listed[i].path] = Missing
        /\ Offending = {} => last.listed = <<>>
\* one file removed and the other changed since the ledger: both are listed
C17_Witness ==
    /\ GateReached
    /\ fs[ManifestX] = Missing
    /\ fs[ManifestY] # Missing
    /\ Offending = {ManifestX, ManifestY}
    /\ Len(last.listed) = 2
    /\ INVALID \in labels

(* ================================================================ *)
(* find_manifest_hash_comment over the threads of up to MaxThread   *)
(* comments, each holding no start marker, an unterminated block,   *)
(* a block that is not JSON, a block holding null, or one of two    *)
(* ledgers.  Here comments keeps every comment, marker or not.      *)
(* ================================================================ *)
LookupBlocks == {NoBlock, Unterminated, BadJson, JsonNull, LedgerA, LedgerB}

InitLookup ==
    /\ bot = BotIdle
    /\ val = ValIdle
    /\ labels = {}
    /\ comments = <<>>
    /\ prState = "open"
    /\ fs \in [{ManifestX} -> {GoodA}]
    /\ last = Idle("none")

(* Somebody posts a comment; the lookup is run on the thread.              *)
LookupComment ==
    \E block \in LookupBlocks :
        /\ Len(comments) < MaxThread
        /\ comments' = Append(comments, block)
        /\ last' = [Idle("lookup") EXCEPT
                       !.ledger0 = find_manifest_hash_comment(comments),
                       !.preLedger = find_manifest_hash_comment(comments')]
        /\ UNCHANGED <<labels, prState, fs, bot, val>>
NextLookup == LookupComment
SpecLookup == InitLookup /\ [][NextLookup]_vars

\* the comments that hold a well-formed ledger block
WellFormed == {i \in DOMAIN comments : comments[i].kind = "object"}
\* the most recently posted of them
Latest == CHOOSE i \in WellFormed : \A j \in WellFormed : j <= i

(* C18: find_manifest_hash_comment returns the mapping of the most         *)
(* recently posted comment that holds a well-formed ledger block, and the  *)
(* absent result exactly when no comment holds one; a later comment with   *)
(* a malformed or unterminated block does not hide or replace the answer.  *)
C18_LookupReturnsLast ==
    last.op = "lookup" =>
        /\ last.preLedger.none <=> WellFormed = {}
        /\ WellFormed # {} =>
               /\ last.preLedger.c = Latest
               /\ last.preLedger.data = comments[Latest].data

\* the thread has been approved and merged, or rejected and closed
Terminal ==
    \/ APPROVED \in labels /\ prState = "merged"
    \/ REJECTED \in labels /\ prState = "closed"

(* C19: once a thread is Approved (merged) or Rejected (closed), no later  *)
(* validation run and no check, allow or deny command invokes merge or     *)
(* close again, or attaches another status label alongside or in place of  *)
(* Approved or Rejected.                                                   *)
C19_TerminalStates ==
    [][Terminal =>
          /\ last'.invoked = {}
          /\ labels' \cap StatusLabels = labels \cap StatusLabels
          /\ prState' = prState]_vars

(* ================================================================ *)
(* The validator on a submission of two manifest files, each of     *)
(* them conforming, lacking two required keys, not JSON, a JSON     *)
(* array, or gone from the checkout.                                *)
(* ================================================================ *)
GoodY == Manifest("mY", TRUE, "y", "u1", sha256_bytes("c1"))
NotJson == [JsonArray("{") EXCEPT !.json = FALSE]
ParseSamples ==
    {GoodA, GoodY, WithoutFields(GoodY, {"name", "version"}, 1), NotJson,
     JsonArray("[]"), Missing}
ParseIcons == [{"x", "y"} -> {GoodIcon, BigJpeg}]

InitParse ==
    /\ bot = BotIdle
    /\ val = ValIdle
    /\ labels \in {{}, {ON_REVIEW}}
    /\ comments = <<>>
    /\ prState = "open"
    /\ fs \in [{ManifestX, ManifestY} -> ParseSamples]
    /\ last = Idle("none")
ValidateParse == ValidatePush(ParseIcons, Nets)
NextParse == ValidateParse
SpecParse == InitParse /\ [][NextParse]_vars

\* the manifest files of the checkout that json.load rejects
Unparseable == {p \in ManifestSet : fs[p] # Missing /\ ~fs[p].json}

(* C20: a manifest that fails to parse contributes exactly one defect and  *)
(* no field, icon or remote-hash check is run for it, while every other    *)
(* changed manifest of the submission is still fully checked and all       *)
(* defects are reported together in one summary before the thread goes to  *)
(* Invalid manifest.                                                       *)
C20_ParseFailureLocal ==
    (last.op = "validate" /\ Unparseable # {}) =>
        /\ \A p \in Unparseable :
               /\ Count(p, "invalid_json") = 1
               /\ Cardinality({i \in DOMAIN last.errors :
                                   last.errors[i].path = p}) = 1
        /\ \A p \in Parseable : FullyChecked(p)
        /\ last.posted = <<"validation_failed">>
        /\ INVALID \in labels
        /\ ON_REVIEW \notin labels
\* the same, when every manifest that parses is an object
C20_ObjectsChecked ==
    (\A p \in Parseable : fs[p].object) => C20_ParseFailureLocal


====
